---- MODULE Spec2Model ----
(***************************************************************************)
(* Model of the chat broadcast subsystem of app04 (src/app04/src/main.rs). *)
(*                                                                         *)
(* ChatServer is the shared hub state (registry `sessions`, history        *)
(* `messages`) kept in an Arc<Mutex<ChatServer>>.  Every ChatSession is an *)
(* actix actor running on one of the HTTP server's worker threads; a       *)
(* session reaches the hub by locking the mutex.  One action of the model  *)
(* is one critical section of a session callback (the mutex makes it       *)
(* atomic), or one invocation of a ChatServer message handler.             *)
(*                                                                         *)
(* Left out: ChatMessage.timestamp (a wall-clock reading no property here  *)
(* reads) and the HTTP routes other than /ws/{username}.                   *)
(***************************************************************************)
EXTENDS Integers, Sequences, FiniteSets, TLC

\* ------------------------------------------------------------------ bounds
\* Number of websocket connections (ChatSession actors) ever accepted.
NumSessions == 3
\* Amount of work done: the length of the history, plus the join and leave
\* notices the existing sessions still owe, plus the handler invocations
\* that append nothing to the history (pings, renames without a notice,
\* writes of queued messages, Connect and Disconnect events).  A step is
\* taken only while there is room for it, and a connection is accepted
\* only while there is room for its join and leave notices, so that no
\* session is ever kept from starting or stopping by this bound.
MaxWork == 5

\* A session actor is named by its index; its uuid (ChatSession.id) and its
\* address (Addr<ChatSession>) are both that index.
SessionIds == 1..NumSessions

\* Display names a client may put in the path /ws/{username}: the route
\* segment is never empty.
PathNames == {"ana"}
\* Names a client may put in the `username` field of a frame; nothing
\* keeps a client from asking for the name the system notices carry.
UserNames == {"", "bia", "sistema"}
\* Text bodies a client may put in the `message` field of a frame.
Texts == {"oi"}

\* The author of join, leave and rename notices.
SISTEMA == "sistema"
\* The anonymous placeholder of line 211, written here without its accent.
ANONIMO == "Anonimo"

VARIABLES
    sessions,   \* ChatServer.sessions: HashMap<String, Addr<ChatSession>>
    messages,   \* ChatServer.messages: Vec<ChatMessage>
    pc,         \* per session actor: its place in the actor lifecycle
    username,   \* ChatSession.username
    mailbox,    \* per session actor: WsMessage values queued by do_send
    outbound,   \* per session actor: frames written to the websocket
    transport,  \* per session: what has happened to the inbound stream
    nextId,     \* source of fresh Uuid::new_v4() values for ChatMessage.id
    nevents,    \* handler invocations so far that appended no history
    last,       \* the event processed by the latest step
    connected,  \* ids with a connect processed and no later disconnect
    joinedAt,   \* per session: history length and delivery count at connect
    clientLog   \* ChatMessages built for client "message" events, in order

vars == <<sessions, messages, pc, username, mailbox, outbound, transport,
          nextId, nevents, last, connected, joinedAt, clientLog>>

\* ------------------------------------------------------------ data values
\* struct ChatMessage { id, username, message, timestamp }
ChatMessage(id, uname, message) ==
    [id |-> id, username |-> uname, message |-> message]

\* serde_json::to_string(&ChatMessage): the wire object, fields in
\* declaration order.
to_string(m) == <<"id", m.id, "username", m.username, "message", m.message>>

\* struct WsMessage(String)
WsMessage(text) == [ws |-> text]

\* format!("{} entrou no chat", name)
FmtJoined(name) == <<name, " entrou no chat">>
\* format!("{} saiu do chat", name)
FmtLeft(name) == <<name, " saiu do chat">>
\* format!("{} agora e conhecido como {}", old, new)
FmtRenamed(old, new) == <<old, " agora e conhecido como ", new>>

\* --------------------------------------------------------------- registry
\* HashMap::insert: overwrites the entry of an id already present.
HashMapInsert(map, id, addr) ==
    [k \in DOMAIN map \cup {id} |-> IF k = id THEN addr ELSE map[k]]

HashMapRemoveClears(map, id) ==
    IF id \in DOMAIN map
    THEN [k \in DOMAIN map \ {id} |-> map[k]]
    ELSE [k \in {} |-> id]

HashMapRemoveKeeps(map, id) == map

\* HashMap::remove: a no-op for an absent id.
HashMapRemove(map, id) == [k \in DOMAIN map \ {id} |-> map[k]]

\* The addresses the registry holds.
Addrs(map) == {map[k] : k \in DOMAIN map}

\* ------------------------------------------------------------- delivery
\* The mailbox of an actor accepts messages from the moment the actor is
\* created until the actor has stopped.
MailboxOpen(p, a) == p[a] \in {"joining", "running", "stopping"}

DoSendAbortsAll(mb, p, addrs, m) ==
    IF \A a \in addrs : MailboxOpen(p, a)
    THEN [a \in SessionIds |->
            IF a \in addrs THEN Append(mb[a], m) ELSE mb[a]]
    ELSE mb

\* Addr::do_send to each address of `addrs`: the message is queued
\* whatever the mailbox's capacity, and silently dropped when the mailbox
\* is closed; no outcome is reported to the caller.
DoSendAll(mb, p, addrs, m) ==
    [a \in SessionIds |->
        IF a \in addrs /\ MailboxOpen(p, a) THEN Append(mb[a], m) ELSE mb[a]]

BroadcastNoPush(hist, message) == hist

BroadcastPushClientOnly(hist, message) ==
    IF message.username = SISTEMA THEN hist ELSE Append(hist, message)

\* ChatServer::broadcast_message, line 38: self.messages.push(message).
BroadcastPush(hist, message) == Append(hist, message)

BroadcastFanOutFirst(map, mb, p, message) ==
    LET first == {a \in Addrs(map) : \A b \in Addrs(map) : a <= b} IN
    DoSendAll(mb, p, first, WsMessage(to_string(message)))

\* ChatServer::broadcast_message, lines 41-43: one do_send per registry
\* entry.
BroadcastFanOut(map, mb, p, message) ==
    DoSendAll(mb, p, Addrs(map), WsMessage(to_string(message)))

\* Sends one WsMessage per element of `hist`, in order, to `addr`.
RECURSIVE Replay(_, _, _, _)
Replay(mb, p, addr, hist) ==
    IF hist = <<>> THEN mb
    ELSE Replay(DoSendAll(mb, p, {addr}, WsMessage(to_string(Head(hist)))),
                p, addr, Tail(hist))

\* Everything queued for session s so far: written frames, then mailbox.
ChatFrames(out) == SelectSeq(out, LAMBDA f : f.kind = "text")
DeliveredOf(out, mb) ==
    [i \in 1..Len(ChatFrames(out)) |-> WsMessage(ChatFrames(out)[i].text)] \o mb
Delivered(s) == DeliveredOf(outbound[s], mailbox[s])

\* ------------------------------------------------------------------- init
NoMsg == ChatMessage(0, "", "")
Event(op, id, msg) == [op |-> op, id |-> id, msg |-> msg]
NoEvent == Event("none", 0, NoMsg)

Init ==
    /\ sessions = [k \in {} |-> 0]
    /\ messages = <<>>
    /\ pc = [s \in SessionIds |-> "idle"]
    /\ username = [s \in SessionIds |-> ""]
    /\ mailbox = [s \in SessionIds |-> <<>>]
    /\ outbound = [s \in SessionIds |-> <<>>]
    /\ transport = [s \in SessionIds |-> "open"]
    /\ nextId = 1
    /\ nevents = 0
    /\ last = NoEvent
    /\ connected = {}
    /\ joinedAt = [s \in SessionIds |-> [hist |-> -1, pos |-> -1]]
    /\ clientLog = <<>>

\* ------------------------------------------------------- inbound frames
\* The text of an inbound frame: not JSON at all, or a JSON object that
\* carries some of the fields action, message, username.
Garbage == [json |-> FALSE, fields |-> <<>>]
Json(fields) == [json |-> TRUE, fields |-> fields]

TextFrames ==
    {Garbage, Json([action |-> "outra"]), Json([message |-> "oi"])}
    \cup {Json([action |-> "message", message |-> t]) : t \in Texts}
    \cup {Json([action |-> "message"])}
    \cup {Json([action |-> "setUsername", username |-> u]) : u \in UserNames}
    \cup {Json([action |-> "setUsername"])}

\* #[serde(default)] on a String field: the empty string when absent.
Field(fields, name) == IF name \in DOMAIN fields THEN fields[name] ELSE ""

\* serde_json::from_str::<WebSocketMessage>(&text)
from_str(text) ==
    IF text.json
    THEN [ok |-> TRUE,
          action |-> Field(text.fields, "action"),
          message |-> Field(text.fields, "message"),
          username |-> Field(text.fields, "username")]
    ELSE [ok |-> FALSE, action |-> "", message |-> "", username |-> ""]

TextFrame(text) == [kind |-> "text", text |-> text]
PongFrame == [kind |-> "pong", text |-> <<>>]
CloseFrame == [kind |-> "close", text |-> <<>>]

\* Notices still owed by the sessions that exist: a join and a leave notice
\* for one whose started() has not broadcast yet, a leave notice for one
\* that runs.
Owed(p) ==
    LET n1 == Cardinality({s \in SessionIds : p[s] \in {"created", "joining"}})
        n2 == Cardinality({s \in SessionIds : p[s] \in {"running", "stopping"}})
    IN  n1 + n1 + n2

Work == Len(messages) + Owed(pc) + nevents

\* Room for one more step that does work.
Room == Work < MaxWork

\* ----------------------------------------------------- session lifecycle
\* chat_ws: a connection upgrade creates the session actor with a fresh id
\* and the display name of the path.  Session ids are fresh uuids, so the
\* sessions are created in index order.
ChatWs(s, name) ==
    /\ pc[s] = "idle"
    /\ \A t \in SessionIds : t < s => pc[t] # "idle"
    /\ Work + 2 <= MaxWork
    /\ pc' = [pc EXCEPT ![s] = "created"]
    /\ username' = [username EXCEPT ![s] = name]
    /\ last' = Event("ChatWs", s, NoMsg)
    /\ UNCHANGED <<sessions, messages, mailbox, outbound, transport, nextId,
                   nevents, connected, joinedAt, clientLog>>

\* ChatSession::started, lines 137-142: the first critical section.  The
\* guard of this lock() is a temporary, released at the end of the
\* statement.
StartedInsert(s) ==
    /\ pc[s] = "created"
    /\ sessions' = HashMapInsert(sessions, s, s)
    /\ pc' = [pc EXCEPT ![s] = "joining"]
    /\ connected' = connected \cup {s}
    /\ joinedAt' = [joinedAt EXCEPT
                      ![s] = [hist |-> Len(messages), pos |-> Len(Delivered(s))]]
    /\ last' = Event("Insert", s, NoMsg)
    /\ UNCHANGED <<messages, username, mailbox, outbound, transport, nextId,
                   nevents, clientLog>>

\* ChatSession::started, lines 145-154: the second critical section.
StartedBroadcast(s) ==
    /\ pc[s] = "joining"
    /\ LET msg == ChatMessage(nextId, SISTEMA, FmtJoined(username[s])) IN
        /\ messages' = BroadcastPush(messages, msg)
        /\ mailbox' = BroadcastFanOut(sessions, mailbox, pc, msg)
        /\ last' = Event("Joined", s, msg)
    /\ nextId' = nextId + 1
    /\ pc' = [pc EXCEPT ![s] = "running"]
    /\ UNCHANGED <<sessions, username, outbound, transport, nevents,
                   connected, joinedAt, clientLog>>

\* ChatSession::stopping: one critical section, then Running::Stop.
Stopping(s) ==
    /\ pc[s] = "stopping"
    /\ LET msg == ChatMessage(nextId, SISTEMA, FmtLeft(username[s]))
           reg == HashMapRemove(sessions, s) IN
        /\ sessions' = reg
        /\ messages' = BroadcastPush(messages, msg)
        /\ mailbox' = BroadcastFanOut(reg, mailbox, pc, msg)
        /\ last' = Event("Left", s, msg)
    /\ nextId' = nextId + 1
    /\ pc' = [pc EXCEPT ![s] = "stopped"]
    /\ connected' = connected \ {s}
    /\ UNCHANGED <<username, outbound, transport, nevents, joinedAt,
                   clientLog>>

HandleWsMessageLifo(s) ==
    /\ pc[s] = "running"
    /\ mailbox[s] # <<>>
    /\ Room
    /\ nevents' = nevents + 1
    /\ outbound' = [outbound EXCEPT
          ![s] = Append(@, TextFrame(mailbox[s][Len(mailbox[s])].ws))]
    /\ mailbox' = [mailbox EXCEPT ![s] = SubSeq(@, 1, Len(@) - 1)]
    /\ last' = Event("WsMessage", s, NoMsg)
    /\ UNCHANGED <<sessions, messages, pc, username, transport, nextId,
                   connected, joinedAt, clientLog>>

\* Handler<WsMessage> for ChatSession: ctx.text(msg.0).
HandleWsMessage(s) ==
    /\ pc[s] = "running"
    /\ mailbox[s] # <<>>
    /\ Room
    /\ nevents' = nevents + 1
    /\ outbound' = [outbound EXCEPT
                      ![s] = Append(@, TextFrame(Head(mailbox[s]).ws))]
    /\ mailbox' = [mailbox EXCEPT ![s] = Tail(@)]
    /\ last' = Event("WsMessage", s, NoMsg)
    /\ UNCHANGED <<sessions, messages, pc, username, transport, nextId,
                   connected, joinedAt, clientLog>>

\* ------------------------------------------------ inbound stream handler
\* A session handles inbound stream items once started() has returned and
\* until ctx.stop() is called.
Reading(s) == pc[s] = "running" /\ transport[s] = "open"

OnMessageNoFill(s, msg) ==
    LET chat == ChatMessage(nextId, username[s], msg.message) IN
    /\ Room
    /\ UNCHANGED <<nevents, username>>
    /\ messages' = BroadcastPush(messages, chat)
    /\ mailbox' = BroadcastFanOut(sessions, mailbox, pc, chat)
    /\ nextId' = nextId + 1
    /\ clientLog' = Append(clientLog, chat)
    /\ last' = Event("Message", s, chat)

\* StreamHandler::handle, the "message" arm (lines 208-230).
OnMessage(s, msg) ==
    LET name == IF username[s] = "" THEN ANONIMO ELSE username[s]
        chat == ChatMessage(nextId, name, msg.message) IN
    /\ Room
    /\ UNCHANGED nevents
    /\ username' = [username EXCEPT ![s] = name]
    /\ messages' = BroadcastPush(messages, chat)
    /\ mailbox' = BroadcastFanOut(sessions, mailbox, pc, chat)
    /\ nextId' = nextId + 1
    /\ clientLog' = Append(clientLog, chat)
    /\ last' = Event("Message", s, chat)

OnSetUsernameAlways(s, msg) ==
    LET old_name == username[s]
        chat == ChatMessage(nextId, SISTEMA, FmtRenamed(old_name, msg.username)) IN
    /\ username' = [username EXCEPT ![s] = msg.username]
    /\ IF old_name # msg.username
       THEN /\ Room
            /\ UNCHANGED nevents
            /\ messages' = BroadcastPush(messages, chat)
            /\ mailbox' = BroadcastFanOut(sessions, mailbox, pc, chat)
            /\ nextId' = nextId + 1
            /\ last' = Event("Renamed", s, chat)
       ELSE /\ Room
            /\ nevents' = nevents + 1
            /\ UNCHANGED <<messages, mailbox, nextId>>
            /\ last' = Event("SetUsername", s, NoMsg)
    /\ UNCHANGED clientLog

\* StreamHandler::handle, the "setUsername" arm (lines 231-247).
OnSetUsername(s, msg) ==
    LET old_name == username[s]
        chat == ChatMessage(nextId, SISTEMA, FmtRenamed(old_name, msg.username)) IN
    /\ username' = [username EXCEPT ![s] = msg.username]
    /\ IF old_name # "" /\ old_name # msg.username
       THEN /\ Room
            /\ UNCHANGED nevents
            /\ messages' = BroadcastPush(messages, chat)
            /\ mailbox' = BroadcastFanOut(sessions, mailbox, pc, chat)
            /\ nextId' = nextId + 1
            /\ last' = Event("Renamed", s, chat)
       ELSE /\ Room
            /\ nevents' = nevents + 1
            /\ UNCHANGED <<messages, mailbox, nextId>>
            /\ last' = Event("SetUsername", s, NoMsg)
    /\ UNCHANGED clientLog

\* StreamHandler::handle, the unknown-action arm and the parse failure
\* (lines 248-254): a log line only.
OnIgnored(s) ==
    /\ last' = Event("Ignored", s, NoMsg)
    /\ UNCHANGED <<username, messages, mailbox, nextId, nevents, clientLog>>

StreamTextFallsThrough(s, text) ==
    /\ Reading(s)
    /\ LET msg == from_str(text) IN
        IF msg.ok
        THEN CASE msg.action = "setUsername" -> OnSetUsername(s, msg)
               [] OTHER -> OnMessage(s, msg)
        ELSE OnIgnored(s)
    /\ UNCHANGED <<sessions, pc, outbound, transport, connected, joinedAt>>

\* StreamHandler::handle, Ok(ws::Message::Text(text)) (lines 203-255).
StreamText(s, text) ==
    /\ Reading(s)
    /\ LET msg == from_str(text) IN
        IF msg.ok
        THEN CASE msg.action = "message" -> OnMessage(s, msg)
               [] msg.action = "setUsername" -> OnSetUsername(s, msg)
               [] OTHER -> OnIgnored(s)
        ELSE OnIgnored(s)
    /\ UNCHANGED <<sessions, pc, outbound, transport, connected, joinedAt>>

\* StreamHandler::handle, Ok(ws::Message::Ping(msg)): ctx.pong(&msg).
StreamPing(s) ==
    /\ Reading(s)
    /\ Room
    /\ nevents' = nevents + 1
    /\ outbound' = [outbound EXCEPT ![s] = Append(@, PongFrame)]
    /\ last' = Event("Ping", s, NoMsg)
    /\ UNCHANGED <<sessions, messages, pc, username, mailbox, transport,
                   nextId, connected, joinedAt, clientLog>>

\* StreamHandler::handle, Ok(ws::Message::Close(reason)): ctx.close(reason);
\* ctx.stop().  The actor is then in its stopping state: it handles no
\* further message, and stopping() runs next on its thread.
StreamClose(s) ==
    /\ Reading(s)
    /\ outbound' = [outbound EXCEPT ![s] = Append(@, CloseFrame)]
    /\ pc' = [pc EXCEPT ![s] = "stopping"]
    /\ transport' = [transport EXCEPT ![s] = "closed"]
    /\ last' = Event("Close", s, NoMsg)
    /\ UNCHANGED <<sessions, messages, username, mailbox, nextId, nevents,
                   connected, joinedAt, clientLog>>

\* StreamHandler::handle, the catch-all arm `_ => {}` (line 263): binary,
\* pong, continuation and nop frames.
StreamOther(s) ==
    /\ Reading(s)
    /\ last' = Event("Other", s, NoMsg)
    /\ UNCHANGED <<sessions, messages, pc, username, mailbox, outbound,
                   transport, nextId, nevents, connected, joinedAt, clientLog>>

\* StreamHandler::handle, the catch-all arm `_ => {}` (line 263) for an
\* Err(ws::ProtocolError) item: nothing is done, the session keeps running.
StreamError(s) ==
    /\ Reading(s)
    /\ transport' = [transport EXCEPT ![s] = "error"]
    /\ last' = Event("Error", s, NoMsg)
    /\ UNCHANGED <<sessions, messages, pc, username, mailbox, outbound,
                   nextId, nevents, connected, joinedAt, clientLog>>

\* The inbound stream ends (the peer is gone): the StreamHandler impl
\* (line 200) does not override finished(), whose default is ctx.stop().
StreamFinished(s) ==
    /\ pc[s] = "running"
    /\ transport[s] \in {"open", "error"}
    /\ pc' = [pc EXCEPT ![s] = "stopping"]
    /\ transport' = [transport EXCEPT ![s] = "ended"]
    /\ last' = Event("Finished", s, NoMsg)
    /\ UNCHANGED <<sessions, messages, username, mailbox, outbound, nextId,
                   nevents, connected, joinedAt, clientLog>>

\* ------------------------------------------------- ChatServer handlers
\* Handler<Connect> for ChatServer, for the Connect{id, addr} of session
\* actor s.
HandleConnect(s) ==
    /\ Room
    /\ pc[s] \notin {"idle", "created"}
    /\ nevents' = nevents + 1
    /\ LET reg == HashMapInsert(sessions, s, s) IN
        /\ sessions' = reg
        /\ mailbox' = IF s \in DOMAIN reg
                      THEN Replay(mailbox, pc, reg[s], messages)
                      ELSE mailbox
    /\ connected' = connected \cup {s}
    /\ joinedAt' = [joinedAt EXCEPT
                      ![s] = [hist |-> Len(messages), pos |-> Len(Delivered(s))]]
    /\ last' = Event("HubConnect", s, NoMsg)
    /\ UNCHANGED <<messages, pc, username, outbound, transport, nextId,
                   clientLog>>

\* Handler<Disconnect> for ChatServer, for any id.
HandleDisconnect(id) ==
    /\ Room
    /\ nevents' = nevents + 1
    /\ sessions' = HashMapRemove(sessions, id)
    /\ connected' = connected \ {id}
    /\ last' = Event("HubDisconnect", id, NoMsg)
    /\ UNCHANGED <<messages, pc, username, mailbox, outbound, transport,
                   nextId, joinedAt, clientLog>>

\* Handler<ClientMessage> for ChatServer.
HandleClientMessage(id, text, uname) ==
    /\ Room
    /\ UNCHANGED nevents
    /\ LET chat == ChatMessage(nextId, uname, text) IN
        /\ messages' = BroadcastPush(messages, chat)
        /\ mailbox' = BroadcastFanOut(sessions, mailbox, pc, chat)
        /\ clientLog' = Append(clientLog, chat)
        /\ last' = Event("HubMessage", id, chat)
    /\ nextId' = nextId + 1
    /\ UNCHANGED <<sessions, pc, username, outbound, transport, connected,
                   joinedAt>>

\* ---------------------------------------------------------- specification
SessionStep(s) ==
    \/ \E name \in PathNames : ChatWs(s, name)
    \/ StartedInsert(s)
    \/ StartedBroadcast(s)
    \/ Stopping(s)
    \/ HandleWsMessage(s)
    \/ \E text \in TextFrames : StreamText(s, text)
    \/ StreamPing(s)
    \/ StreamClose(s)
    \/ StreamOther(s)
    \/ StreamError(s)
    \/ StreamFinished(s)

HubStep ==
    \/ \E s \in SessionIds : HandleConnect(s)
    \/ \E id \in SessionIds : HandleDisconnect(id)
    \/ \E id \in SessionIds, text \in Texts, uname \in PathNames :
          HandleClientMessage(id, text, uname)

Next == (\E s \in SessionIds : SessionStep(s)) \/ HubStep

Spec == Init /\ [][Next]_vars

\* The program as deployed: main() never starts ChatServer as an actor, so
\* only the sessions act.  Each session actor is polled by its worker's
\* event loop, so a callback that is due (started(), stopping()) runs;
\* what the peer sends, and when, is not constrained.
SessionNext == \E s \in SessionIds : SessionStep(s)

FairSpec ==
    /\ Init
    /\ [][SessionNext]_vars
    /\ \A s \in SessionIds :
          /\ WF_vars(StartedInsert(s))
          /\ WF_vars(StartedBroadcast(s))
          /\ WF_vars(Stopping(s))

\* ============================================================ properties
Wire(m) == WsMessage(to_string(m))
Newest(hist) == hist[Len(hist)]
Pushed == Len(messages') = Len(messages) + 1
\* The sessions of the registry whose mailbox takes a message.
Reachable(map, p) == {a \in Addrs(map) : MailboxOpen(p, a)}
\* The mailboxes after one delivery of m to each session of `to`.
After(to, m) ==
    [s \in SessionIds |->
        IF s \in to THEN Append(mailbox[s], Wire(m)) ELSE mailbox[s]]

\* C1 -- Replay correctness: a session whose connect has been processed
\* after N messages were broadcast has been sent those N messages, in
\* history order, ahead of everything sent to it since its connect.
C1_ReplayCorrectness ==
    \A s \in SessionIds :
        (s \in connected /\ pc[s] \in {"running", "stopping"})
        => LET d == Delivered(s)
               n == joinedAt[s].hist
               p == joinedAt[s].pos
           IN  /\ Len(d) >= p + n
               /\ \A i \in 1..n : d[p + i] = Wire(messages[i])

\* C2 -- Registry exactness: the registry's keys are exactly the ids with
\* a connect processed and no later disconnect processed, one entry each,
\* the entry of an id being that session's own handle.
C2_RegistryExact ==
    /\ DOMAIN sessions = connected
    /\ \A id \in DOMAIN sessions : sessions[id] = id

C2_Witness ==
    \E a, b \in SessionIds :
        /\ a \in DOMAIN sessions /\ pc[a] = "running"
        /\ pc[b] = "stopped" /\ b \notin DOMAIN sessions

\* C3 -- History completeness: the client chat messages in the history are
\* exactly the client messages processed so far, each once, in the order
\* they were processed, whatever else has happened since.
ClientIds == {clientLog[i].id : i \in 1..Len(clientLog)}

C3_HistoryComplete ==
    SelectSeq(messages, LAMBDA m : m.id \in ClientIds) = clientLog

C3_Witness ==
    /\ Len(clientLog) >= 2
    /\ Newest(messages).id \notin ClientIds
    /\ messages[1].id \notin ClientIds

\* C4 -- Fan-out with echo: the step that processes a "message" action
\* queues exactly one ChatMessage, whose author is the sender's display
\* name and whose body is the text sent, for every session of the registry,
\* the sender included, and nothing for any other session.
C4_FanOutEcho ==
    [][last'.op \in {"Message", "HubMessage"} =>
        LET m == last'.msg IN
        /\ Pushed /\ Newest(messages') = m
        /\ last'.op = "Message" => m.username = username'[last'.id]
        /\ mailbox' = After(Reachable(sessions, pc), m)]_vars

C4_Witness ==
    /\ last.op = "Message"
    /\ last.msg.message = "oi"
    /\ last.id \in DOMAIN sessions
    /\ \E t \in DOMAIN sessions : t # last.id
    /\ \A t \in DOMAIN sessions :
          mailbox[t] # <<>> /\ Newest(mailbox[t]) = Wire(last.msg)

\* C5 -- Disconnect handling: the step that processes a disconnect of a
\* registered session removes its id and queues exactly one system "left"
\* notice naming it for every session still registered, and nothing for
\* the departed session; and no step queues anything for a session that
\* is not registered.
C5_DisconnectNotice ==
    [][/\ (last'.op \in {"Left", "HubDisconnect"} /\ last'.id \in DOMAIN sessions)
          => /\ last'.id \notin DOMAIN sessions'
             /\ Pushed
             /\ Newest(messages') =
                    ChatMessage(nextId, SISTEMA, FmtLeft(username[last'.id]))
             /\ mailbox' = After(Reachable(sessions', pc), Newest(messages'))
       /\ \A s \in SessionIds :
             Len(mailbox'[s]) > Len(mailbox[s]) => s \in Addrs(sessions')]_vars

\* C6 -- Connect handling: when the processing of a connect completes, the
\* new session is registered, a system "joined" notice naming it is the
\* newest message and has been queued once for every registered session,
\* and the newcomer has the replayed history queued ahead of that notice.
C6_ConnectNotice ==
    [][last'.op \in {"Joined", "HubConnect"} =>
        LET s == last'.id
            m == ChatMessage(nextId, SISTEMA, FmtJoined(username[s]))
            d == DeliveredOf(outbound'[s], mailbox'[s])
        IN  /\ s \in DOMAIN sessions'
            /\ Pushed /\ Newest(messages') = m
            /\ \A t \in Reachable(sessions', pc) \ {s} :
                  mailbox'[t] = Append(mailbox[t], Wire(m))
            /\ Len(d) > Len(messages)
            /\ \A i \in 1..Len(messages) :
                  d[Len(d) - Len(messages') + i] = Wire(messages[i])
            /\ Newest(d) = Wire(m)]_vars

\* C7 -- Serialized hub operations: while a session is between its
\* registry insert and its join broadcast, no other session's step changes
\* the registry or the history or queues a broadcast.
SessionOps ==
    {"ChatWs", "Insert", "Joined", "Left", "WsMessage", "Message", "Renamed",
     "SetUsername", "Ignored", "Ping", "Close", "Other", "Error", "Finished"}

C7_Serialized ==
    [][\A s \in SessionIds :
        (pc[s] = "joining" /\ last'.op \in SessionOps /\ last'.id # s)
        => /\ sessions' = sessions
           /\ messages' = messages
           /\ \A t \in SessionIds : Len(mailbox'[t]) <= Len(mailbox[t])]_vars

\* C8 -- Idempotent disconnect: the step that processes a disconnect of an
\* id that is not in the registry (a second disconnect, or an id never
\* registered) leaves the registry as it was.
C8_IdempotentDisconnect ==
    [][(last'.op \in {"Left", "HubDisconnect"} /\ last'.id \notin DOMAIN sessions)
        => sessions' = sessions]_vars

C8_Witness ==
    /\ last.op = "HubDisconnect"
    /\ nevents = 1
    /\ pc[last.id] = "stopped"
    /\ \E t \in DOMAIN sessions : pc[t] = "running"

\* C9 -- Isolation under partial failure: a broadcast is queued for every
\* registered session whose mailbox is open, whatever the state of the
\* other registered sessions.
C9_Isolation ==
    [][Pushed =>
        \A s \in Reachable(sessions', pc) :
            mailbox'[s] = Append(mailbox[s], Wire(Newest(messages')))]_vars

C9_Witness ==
    /\ last.msg # NoMsg
    /\ Newest(messages) = last.msg
    /\ \E d \in Addrs(sessions) : pc[d] = "stopped"
    /\ \E a \in Addrs(sessions) :
          /\ pc[a] \in {"joining", "running"}
          /\ mailbox[a] # <<>>
          /\ Newest(mailbox[a]) = Wire(last.msg)

\* C10 -- No registry leak: a registered session whose transport has
\* closed or failed is eventually removed from the registry.
C10_NoRegistryLeak ==
    \A s \in SessionIds :
        (s \in DOMAIN sessions /\ transport[s] # "open")
            ~> (s \notin DOMAIN sessions)

\* C11 -- Ignored frames change nothing: handling a text frame that does
\* not decode, or that decodes to an action other than "message" and
\* "setUsername", changes neither the registry, the history, any display
\* name, any mailbox or socket, nor the session's place in its lifecycle.
IgnoredFrames ==
    {f \in TextFrames :
        \/ ~f.json
        \/ "action" \notin DOMAIN f.fields
        \/ f.fields.action \notin {"message", "setUsername"}}

C11_IgnoredFrames ==
    [][\A s \in SessionIds, f \in IgnoredFrames :
        StreamText(s, f)
        => /\ sessions' = sessions /\ messages' = messages
           /\ username' = username /\ mailbox' = mailbox
           /\ outbound' = outbound /\ pc' = pc /\ transport' = transport]_vars

C11_Witness ==
    /\ last.op = "Ignored"
    /\ last.id \in DOMAIN sessions
    /\ pc[last.id] = "running"
    /\ Len(messages) >= 2
    /\ \E t \in DOMAIN sessions : t # last.id

\* C12 -- Rename announcement: handling a "setUsername" action that names
\* u sets the display name to u; a system rename notice is pushed and
\* queued for the registered sessions exactly when the previous name was
\* non-empty and differs from u, and otherwise history and mailboxes are
\* left alone.
Rename(u) == Json([action |-> "setUsername", username |-> u])

C12_RenameAnnouncement ==
    [][\A s \in SessionIds, u \in UserNames :
        StreamText(s, Rename(u))
        => /\ username'[s] = u
           /\ IF username[s] # "" /\ username[s] # u
              THEN LET m == ChatMessage(nextId, SISTEMA,
                                        FmtRenamed(username[s], u)) IN
                   /\ Pushed /\ Newest(messages') = m
                   /\ mailbox' = After(Reachable(sessions, pc), m)
              ELSE messages' = messages /\ mailbox' = mailbox]_vars

C12_Witness ==
    /\ last.op = "SetUsername"
    /\ username[last.id] = "bia"
    /\ \E i \in 1..Len(messages) :
          /\ messages[i].username = SISTEMA
          /\ messages[i].message = FmtRenamed("ana", "")

\* C13 -- Anonymous placeholder: no client chat message in the history or
\* queued for any session has an empty author, and after a "message"
\* action the sender's display name is the author of the message built.
WireId(w) == w.ws[2]
WireAuthor(w) == w.ws[4]

C13_NoEmptyAuthor ==
    /\ \A i \in 1..Len(messages) :
          messages[i].id \in ClientIds => messages[i].username # ""
    /\ \A s \in SessionIds : \A i \in 1..Len(Delivered(s)) :
          WireId(Delivered(s)[i]) \in ClientIds
              => WireAuthor(Delivered(s)[i]) # ""
    /\ last.op = "Message" => username[last.id] = last.msg.username

C13_Witness ==
    /\ last.op = "Message"
    /\ last.msg.username = ANONIMO
    /\ username[last.id] = ANONIMO
    /\ \E i \in 1..Len(messages) : messages[i].message = FmtRenamed("ana", "")
    /\ mailbox[last.id] # <<>>
    /\ WireAuthor(Newest(mailbox[last.id])) = ANONIMO

\* C14 -- Required fields: handling a "message" action without a message
\* field, or a "setUsername" action without a username field, pushes
\* nothing, queues nothing and changes no display name.
C14_RequiredFields ==
    [][\A s \in SessionIds :
        (\/ StreamText(s, Json([action |-> "message"]))
         \/ StreamText(s, Json([action |-> "setUsername"])))
        => /\ messages' = messages
           /\ mailbox' = mailbox
           /\ username' = username]_vars

\* C15 -- Reserved system sentinel: no client chat message carries the
\* author of the system notices.
C15_SentinelReserved ==
    \A i \in 1..Len(messages) :
        messages[i].id \in ClientIds => messages[i].username # SISTEMA

\* C16 -- Consistent delivery order: whatever has been queued for or
\* written to a session is in history order, so no two sessions hold the
\* same two messages in opposite orders.
InHistoryOrder(d) ==
    \A i, j \in 1..Len(d) :
        i < j => \E a, b \in 1..Len(messages) :
                    /\ a < b
                    /\ d[i] = Wire(messages[a])
                    /\ d[j] = Wire(messages[b])

Before(d, x, y) == \E i, j \in 1..Len(d) : i < j /\ d[i] = x /\ d[j] = y

C16_ConsistentOrder ==
    /\ \A s \in SessionIds : InHistoryOrder(Delivered(s))
    /\ \A s, t \in SessionIds :
          \A a, b \in 1..Len(messages) :
              ~(/\ Before(Delivered(s), Wire(messages[a]), Wire(messages[b]))
                /\ Before(Delivered(t), Wire(messages[b]), Wire(messages[a])))

C16_Witness ==
    \E s, t \in SessionIds :
        /\ s # t
        /\ \E a, b \in 1..Len(messages) :
              /\ a < b
              /\ Before(Delivered(s), Wire(messages[a]), Wire(messages[b]))
              /\ Before(Delivered(t), Wire(messages[a]), Wire(messages[b]))
        /\ \E f \in 1..Len(outbound[s]) : outbound[s][f].kind = "text"

\* C17 -- Delivered implies recorded: everything queued for or written to
\* a session, system notices included, is an element of the history, and
\* the history holds one element per broadcast, in broadcast order.
C17_DeliveredRecorded ==
    /\ \A s \in SessionIds : \A i \in 1..Len(Delivered(s)) :
          \E k \in 1..Len(messages) : Delivered(s)[i] = Wire(messages[k])
    /\ Len(messages) = nextId - 1
    /\ \A k \in 1..Len(messages) : messages[k].id = k

C17_Witness ==
    \E s \in SessionIds :
        /\ \E i \in 1..Len(Delivered(s)) :
              WireAuthor(Delivered(s)[i]) = SISTEMA
        /\ \E i \in 1..Len(Delivered(s)) :
              WireId(Delivered(s)[i]) \in ClientIds
        /\ pc[s] = "stopped"

====
